---- MODULE Spec2Model ----
(***************************************************************************)
(* Model of the session engines of vanilla-claude-code:                    *)
(*   - the terminal registry of the main process (ipc-handlers),           *)
(*   - the window-all-closed handler of the main process (main/index.ts),  *)
(*   - the git status parse (ipc-handlers) and the git store (gitStore.ts).*)
(*   - the device flow: authenticateWithDeviceFlow (GitHub service) and   *)
(*     the login modal with its auth store (GitHubLogin.tsx),              *)
(*   - the tab store of the renderer (tabStore.ts).                        *)
(***************************************************************************)
EXTENDS Integers, Sequences, FiniteSets, TLC

(* ------------------------------ bounds --------------------------------- *)
MaxTerminals == 2      \* terminal:create calls explored
MaxChunks == 2         \* stdout/stderr chunks the child processes emit in all
MaxWrites == 1         \* terminal:write calls that reach a process
MaxLines == 2          \* lines of one `git status --porcelain=v1` output
NumPaths == 2          \* distinct file paths git reports
MaxExpiresIn == 25     \* largest expires_in (seconds) the server grants a device code
MaxLogins == 4         \* handleLogin calls explored
MaxGroups == 2         \* addTabGroup calls explored
MaxTabs == 2           \* addTab calls explored

(* ------------------------------ state ---------------------------------- *)
VARIABLES
  terminalIdCounter,   \* let terminalIdCounter
  terminals,           \* const terminals = new Map(): entries in insertion order
  procState,           \* child process n: "none" | "running" | "spawnerr" | "failed" | "exited"
  procSignalled,       \* child process n got process.kill()
  procStdin,           \* data written to the stdin of child process n
  procChunks,          \* number of output chunks child process n has emitted
  spawned,             \* number of spawn() calls made
  sent,                \* mainWindow.webContents.send calls of each session id, in order
  issued,              \* handles returned by terminal:create, in order
  raised,              \* the last handler threw
  lastOp,              \* the last renderer command and what its handle referred to
  shortcuts,           \* global shortcuts are registered
  windowsClosed,       \* 'window-all-closed' was handled
  appQuit,             \* app.quit() was called
  gitOutput,           \* what `git status --porcelain=v1` prints for the repository
  gitResult,           \* value the last git:status call resolved with, or NoStatus
  status,              \* useGitStore().status
  roundTrip,           \* bookkeeping of a stageFile(p); unstageFile(p) pair
  installed,           \* the last store call was setStatus: "no" | "same" | "over"
  returnedEarly,       \* the last store call was a staging call that returned without set()
  flowPc,              \* authenticateWithDeviceFlow: "idle" | "deviceCode" | "timer" | "token" | "user" | "done"
  now,                 \* Date.now(), counted from the call
  expiresAt,           \* const expiresAt
  interval,            \* let interval
  dcInterval,          \* deviceCodeResponse.interval
  timerDue,            \* when the pending setTimeout is due
  answeredAt,          \* Date.now() when the last awaited response arrived
  polls,               \* pollForAccessToken calls made
  requestedAt,         \* Date.now() of the last pollForAccessToken call
  nPending,            \* authorization_pending answers received
  nSlow,               \* slow_down answers received
  nEmpty,              \* answers with neither a token nor an error received
  tokenResponse,       \* const tokenResponse of the last iteration
  callbacks,           \* onUserCode and onProgress calls, in order
  outcome,             \* what the call returned or threw
  deviceFlowState,     \* useAuthStore().deviceFlowState
  isLoading,           \* useAuthStore().isLoading
  showLoginModal,      \* App: the GitHubLogin modal is mounted
  logins,              \* handleLogin calls made
  loginTimer,          \* handleLogin call n: "none" | "pending" | "done" (its setTimeout)
  cancelled,           \* handleCancel ended a waiting attempt and no attempt started since
  tabGroups,           \* useTabStore().tabGroups
  activeGroupId,       \* useTabStore().activeGroupId
  groupsMade,          \* generateId() calls made by addTabGroup
  tabsMade             \* generateId() calls made by addTab

termVars == <<terminalIdCounter, terminals, procState, procSignalled, procStdin,
              procChunks, spawned, sent, issued, raised, lastOp, shortcuts,
              windowsClosed, appQuit>>
gitVars == <<gitOutput, gitResult, status, roundTrip, installed, returnedEarly>>
flowVars == <<flowPc, now, expiresAt, interval, dcInterval, timerDue, answeredAt, polls,
              requestedAt, nPending, nSlow, nEmpty, tokenResponse, callbacks, outcome>>
loginVars == <<deviceFlowState, isLoading, showLoginModal, logins, loginTimer, cancelled>>
tabVars == <<tabGroups, activeGroupId, groupsMade, tabsMade>>
notTermVars == <<gitVars, flowVars, loginVars, tabVars>>
notGitVars == <<termVars, flowVars, loginVars, tabVars>>
notFlowVars == <<termVars, gitVars, loginVars, tabVars>>
notLoginVars == <<termVars, gitVars, flowVars, tabVars>>
notTabVars == <<termVars, gitVars, flowVars, loginVars>>
vars == <<termVars, gitVars, flowVars, loginVars, tabVars>>

(* --------------------------- terminal registry ------------------------- *)
Procs == 1..MaxTerminals

RECURSIVE SumUpTo(_, _)
SumUpTo(f, n) == IF n = 0 THEN 0 ELSE f[n] + SumUpTo(f, n - 1)

\* `term-${n}`
TermId(n) == <<"term-", n>>

\* ids a renderer may pass: issued, not yet issued and never issued ones
Handles == {TermId(n) : n \in 0..MaxTerminals}

Chunks == {"x"}
NullCode == -1
ExitCodes == {NullCode, 0, 1}

\* process.platform
Platforms == {"darwin", "linux"}

MapHas(m, k) == \E i \in 1..Len(m) : m[i].id = k
MapGet(m, k) == m[CHOOSE i \in 1..Len(m) : m[i].id = k]
MapDelete(m, k) == SelectSeq(m, LAMBDA e : e.id # k)
MapSet(m, k, v) ==
  IF MapHas(m, k)
  THEN [i \in 1..Len(m) |-> IF m[i].id = k THEN [id |-> k, process |-> v] ELSE m[i]]
  ELSE Append(m, [id |-> k, process |-> v])
MapKeys(m) == {m[i].id : i \in 1..Len(m)}

\* code || 0
ExitArg(code) == IF code = NullCode \/ code = 0 THEN 0 ELSE code

DataEvent(id, data) == [channel |-> "terminal:data", id |-> id, data |-> data]
ExitEvent(id, code) == [channel |-> "terminal:exit", id |-> id, code |-> code]
ErrorText == "\r\nError: spawn failed\r\n"

Running == ~windowsClosed

\* lastOp after a handler that is not a renderer command on a handle
EventOp == [op |-> "event", target |-> "none"]

\* what a handle passed by the renderer refers to when the handler starts
HandleKind(id) ==
  IF MapHas(terminals, id) THEN "live"
  ELSE IF \E i \in 1..Len(issued) : issued[i] = id THEN "gone"
  ELSE "never"

TermInit ==
  /\ terminalIdCounter = 0
  /\ terminals = <<>>
  /\ procState = [n \in Procs |-> "none"]
  /\ procSignalled = [n \in Procs |-> FALSE]
  /\ procStdin = [n \in Procs |-> <<>>]
  /\ procChunks = [n \in Procs |-> 0]
  /\ spawned = 0
  /\ sent = [id \in Handles |-> <<>>]
  /\ issued = <<>>
  /\ raised = FALSE
  /\ lastOp = EventOp
  /\ shortcuts = TRUE
  /\ windowsClosed = FALSE
  /\ appQuit = FALSE

\* the counter is read without being incremented
NextTerminalId_NoIncrement(counter) == counter

\* ++terminalIdCounter: the number in the id terminal:create gives its session
NextTerminalId(counter) == counter + 1

\* ipcMain.handle('terminal:create'): spawn, register the listeners, terminals.set
TerminalCreate(ok) ==
  /\ Running
  /\ spawned < MaxTerminals
  /\ LET n == NextTerminalId(terminalIdCounter)
         id == TermId(n)
         p == spawned + 1
     IN /\ terminalIdCounter' = n
        /\ spawned' = p
        /\ procState' = [procState EXCEPT ![p] = IF ok THEN "running" ELSE "spawnerr"]
        /\ terminals' = MapSet(terminals, id, p)
        /\ issued' = Append(issued, id)
        /\ lastOp' = EventOp
  /\ raised' = FALSE
  /\ UNCHANGED <<procSignalled, procStdin, procChunks, sent, shortcuts,
                 windowsClosed, appQuit>>
  /\ UNCHANGED notTermVars

\* the data listeners, publishing a chunk ahead of the earlier ones
ProcData_Prepend(p, id, data) ==
  /\ Running
  /\ procState[p] = "running"
  /\ SumUpTo(procChunks, MaxTerminals) < MaxChunks
  /\ procChunks' = [procChunks EXCEPT ![p] = @ + 1]
  /\ sent' = [sent EXCEPT ![id] = <<DataEvent(id, <<data, procChunks[p] + 1>>)>> \o @]
  /\ lastOp' = EventOp
  /\ raised' = FALSE
  /\ UNCHANGED <<terminalIdCounter, terminals, procState, procSignalled, procStdin,
                 spawned, issued, shortcuts, windowsClosed, appQuit>>
  /\ UNCHANGED notTermVars

\* proc.stdout.on('data') / proc.stderr.on('data') of the session `id` of process p
ProcData(p, id, data) ==
  /\ Running
  /\ procState[p] = "running"
  /\ SumUpTo(procChunks, MaxTerminals) < MaxChunks
  /\ procChunks' = [procChunks EXCEPT ![p] = @ + 1]
  /\ sent' = [sent EXCEPT ![id] = Append(@, DataEvent(id, <<data, procChunks[p] + 1>>))]
  /\ lastOp' = EventOp
  /\ raised' = FALSE
  /\ UNCHANGED <<terminalIdCounter, terminals, procState, procSignalled, procStdin,
                 spawned, issued, shortcuts, windowsClosed, appQuit>>
  /\ UNCHANGED notTermVars

\* the exit listener without its terminals.delete(id)
ProcExit_NoDelete(p, id, code) ==
  /\ Running
  /\ procState[p] = "running"
  /\ procState' = [procState EXCEPT ![p] = "exited"]
  /\ sent' = [sent EXCEPT ![id] = Append(@, ExitEvent(id, ExitArg(code)))]
  /\ lastOp' = EventOp
  /\ raised' = FALSE
  /\ UNCHANGED <<terminalIdCounter, terminals, procSignalled, procStdin, procChunks,
                 spawned, issued, shortcuts, windowsClosed, appQuit>>
  /\ UNCHANGED notTermVars

\* proc.on('exit'): the process ended, by itself or after a signal
ProcExit(p, id, code) ==
  /\ Running
  /\ procState[p] = "running"
  /\ procState' = [procState EXCEPT ![p] = "exited"]
  /\ sent' = [sent EXCEPT ![id] = Append(@, ExitEvent(id, ExitArg(code)))]
  /\ terminals' = MapDelete(terminals, id)
  /\ lastOp' = EventOp
  /\ raised' = FALSE
  /\ UNCHANGED <<terminalIdCounter, procSignalled, procStdin, procChunks, spawned,
                 issued, shortcuts, windowsClosed, appQuit>>
  /\ UNCHANGED notTermVars

\* proc.on('error'): the child process could not be spawned
ProcError(p, id) ==
  /\ Running
  /\ procState[p] = "spawnerr"
  /\ procState' = [procState EXCEPT ![p] = "failed"]
  /\ sent' = [sent EXCEPT ![id] = Append(@, DataEvent(id, ErrorText))]
  /\ lastOp' = EventOp
  /\ raised' = FALSE
  /\ UNCHANGED <<terminalIdCounter, terminals, procSignalled, procStdin, procChunks,
                 spawned, issued, shortcuts, windowsClosed, appQuit>>
  /\ UNCHANGED notTermVars

\* the session id the listeners of process p closed over: the p-th id issued
IdOfProc(p) == issued[p]

\* terminal:write without the `if (terminal)` guard: terminals.get(id) is undefined
TerminalWrite_Unguarded(id, data) ==
  /\ Running
  /\ IF MapHas(terminals, id)
     THEN /\ SumUpTo([n \in Procs |-> Len(procStdin[n])], MaxTerminals) < MaxWrites
          /\ procStdin' = [procStdin EXCEPT ![MapGet(terminals, id).process] = Append(@, data)]
          /\ raised' = FALSE
     ELSE /\ raised' = TRUE
          /\ UNCHANGED procStdin
  /\ lastOp' = [op |-> "write", target |-> HandleKind(id)]
  /\ UNCHANGED <<terminalIdCounter, terminals, procState, procSignalled, procChunks,
                 spawned, sent, issued, shortcuts, windowsClosed, appQuit>>
  /\ UNCHANGED notTermVars

\* ipcMain.on('terminal:write')
TerminalWrite(id, data) ==
  /\ Running
  /\ IF MapHas(terminals, id)
     THEN /\ SumUpTo([n \in Procs |-> Len(procStdin[n])], MaxTerminals) < MaxWrites
          /\ procStdin' = [procStdin EXCEPT ![MapGet(terminals, id).process] = Append(@, data)]
     ELSE UNCHANGED procStdin
  /\ raised' = FALSE
  /\ lastOp' = [op |-> "write", target |-> HandleKind(id)]
  /\ UNCHANGED <<terminalIdCounter, terminals, procState, procSignalled, procChunks,
                 spawned, sent, issued, shortcuts, windowsClosed, appQuit>>
  /\ UNCHANGED notTermVars

\* ipcMain.on('terminal:resize'): logs only
TerminalResize(id) ==
  /\ Running
  /\ raised' = FALSE
  /\ lastOp' = [op |-> "resize", target |-> HandleKind(id)]
  /\ UNCHANGED <<terminalIdCounter, terminals, procState, procSignalled, procStdin,
                 procChunks, spawned, sent, issued, shortcuts, windowsClosed, appQuit>>
  /\ UNCHANGED notTermVars

\* ipcMain.on('terminal:kill')
TerminalKill(id) ==
  /\ Running
  /\ IF MapHas(terminals, id)
     THEN /\ procSignalled' = [procSignalled EXCEPT ![MapGet(terminals, id).process] = TRUE]
          /\ terminals' = MapDelete(terminals, id)
     ELSE UNCHANGED <<procSignalled, terminals>>
  /\ raised' = FALSE
  /\ lastOp' = [op |-> "kill", target |-> HandleKind(id)]
  /\ UNCHANGED <<terminalIdCounter, procState, procStdin, procChunks, spawned, sent,
                 issued, shortcuts, windowsClosed, appQuit>>
  /\ UNCHANGED notTermVars

\* app.on('window-all-closed')
WindowAllClosed(platform) ==
  /\ Running
  /\ shortcuts' = FALSE
  /\ windowsClosed' = TRUE
  /\ appQuit' = (platform # "darwin")
  /\ raised' = FALSE
  /\ lastOp' = EventOp
  /\ UNCHANGED <<terminalIdCounter, terminals, procState, procSignalled, procStdin,
                 procChunks, spawned, sent, issued>>
  /\ UNCHANGED notTermVars

TermNext ==
  \/ \E ok \in BOOLEAN : TerminalCreate(ok)
  \/ \E p \in Procs, d \in Chunks : p <= spawned /\ ProcData(p, IdOfProc(p), d)
  \/ \E p \in Procs, c \in ExitCodes : p <= spawned /\ ProcExit(p, IdOfProc(p), c)
  \/ \E p \in Procs : p <= spawned /\ ProcError(p, IdOfProc(p))
  \/ \E id \in Handles, d \in Chunks : TerminalWrite(id, d)
  \/ \E id \in Handles : TerminalResize(id)
  \/ \E id \in Handles : TerminalKill(id)
  \/ \E platform \in Platforms : WindowAllClosed(platform)

(* ------------------------- terminal registry: claims ------------------- *)
ExitEventsOf(id) == SelectSeq(sent[id], LAMBDA e : e.channel = "terminal:exit")
DataEventsOf(id) == SelectSeq(sent[id], LAMBDA e : e.channel = "terminal:data")
NoDuplicates(s) == \A i, j \in 1..Len(s) : s[i] = s[j] => i = j

\* C1 (as claimed): once terminal:kill(h) has signalled the process of a live
\* handle h, h is out of the registry and no terminal:exit event for h is ever
\* published, also when the killed process exits afterwards.
C1_KilledExitDropped ==
  \A p \in 1..spawned :
    procSignalled[p] =>
      /\ ~MapHas(terminals, IdOfProc(p))
      /\ Len(ExitEventsOf(IdOfProc(p))) = 0

\* C2 (as claimed): once the spawn failure of a session's process has been
\* reported, its handle was returned by create, exactly one terminal:exit event
\* with a non-zero code was published for it, and the handle is out of the registry.
C2_SpawnFailureReportedAsExit ==
  \A p \in 1..spawned :
    procState[p] = "failed" =>
      /\ \E i \in 1..Len(issued) : issued[i] = IdOfProc(p)
      /\ Len(ExitEventsOf(IdOfProc(p))) = 1
      /\ ExitEventsOf(IdOfProc(p))[1].code # 0
      /\ ~MapHas(terminals, IdOfProc(p))

\* C3: a session whose process ended by itself (terminal:kill never signalled
\* it) has exactly one terminal:exit event published for its handle, none
\* before the process ended, and its handle is out of the registry afterwards.
C3_OneExitThenRemoved ==
  \A p \in 1..spawned :
    ~procSignalled[p] =>
      IF procState[p] = "exited"
      THEN /\ Len(ExitEventsOf(IdOfProc(p))) = 1
           /\ ~MapHas(terminals, IdOfProc(p))
      ELSE Len(ExitEventsOf(IdOfProc(p))) = 0

C3_Witness ==
  \E p \in 1..spawned :
    /\ procState[p] = "exited"
    /\ ~procSignalled[p]
    /\ Len(ExitEventsOf(IdOfProc(p))) = 1

\* C4: every handle terminal:create returned differs from every handle it
\* returned before, removed ones included, and the registry holds at most one
\* entry per handle.
C4_HandlesFresh ==
  /\ NoDuplicates(issued)
  /\ NoDuplicates([i \in 1..Len(terminals) |-> terminals[i].id])

C4_Witness ==
  /\ Len(issued) >= 2
  /\ ~MapHas(terminals, issued[1])
  /\ MapHas(terminals, issued[2])

\* C5: terminal:write, terminal:resize and terminal:kill on a handle that is
\* not in the registry (never issued, killed or exited) raise nothing and
\* change neither the registry, nor any process, nor any process's input,
\* nor what was published.
C5_UnknownHandleNoOp ==
  [][lastOp'.target \in {"gone", "never"} =>
       /\ lastOp'.op \in {"write", "resize", "kill"}
       /\ raised' = FALSE
       /\ UNCHANGED <<terminalIdCounter, terminals, procState, procSignalled,
                      procStdin, procChunks, spawned, sent, issued>>]_vars

C5_Witness ==
  /\ lastOp.op = "write"
  /\ lastOp.target = "gone"
  /\ Len(terminals) > 0
  /\ ~raised

\* C6 (as claimed): after the window-all-closed handler no registry entry is
\* left and no child process created through the registry is still running.
C6_ShutdownCleansRegistry ==
  windowsClosed =>
    /\ Len(terminals) = 0
    /\ \A p \in 1..spawned : procState[p] # "running"

(* ------------------------------ git status ----------------------------- *)
\* status before the first setStatus (initialState.status)
NoStatus == [null |-> TRUE]

Digits == <<"1", "2", "3", "4", "5", "6", "7", "8", "9">>

\* the i-th file path of the repository, as characters
PathOf(i) == <<"f", Digits[i]>>
PathIds == 1..NumPaths

\* XY code pairs of `git status --porcelain=v1` ("T" is a type change)
IndexChars == {" ", "M", "A", "T"}
WorkingChars == {" ", "M"}
CodePairs ==
  {c \in IndexChars \X WorkingChars : c # <<" ", " ">>} \cup {<<"?", "?">>}

\* one line of output, without its newline
StatusLine(code, path) == <<code[1], code[2], " ">> \o path

RECURSIVE JoinLines(_)
JoinLines(ls) ==
  IF Len(ls) = 0 THEN <<>> ELSE Head(ls) \o <<"\n">> \o JoinLines(Tail(ls))

\* git lists the tracked entries in path order, then the untracked ones
RECURSIVE LinesOf(_, _, _)
LinesOf(assign, i, untrackedPass) ==
  IF i > NumPaths THEN <<>>
  ELSE LET c == assign[i]
           mine == c # <<>> /\ ((c = <<"?", "?">>) = untrackedPass)
       IN (IF mine THEN <<StatusLine(c, PathOf(i))>> ELSE <<>>)
            \o LinesOf(assign, i + 1, untrackedPass)

\* what git may print: each path is absent or has one code pair
Assignments == [PathIds -> CodePairs \cup {<<>>}]
OutputOf(assign) == JoinLines(LinesOf(assign, 1, FALSE) \o LinesOf(assign, 1, TRUE))
Outputs ==
  {OutputOf(a) : a \in {b \in Assignments :
                          Cardinality({i \in PathIds : b[i] # <<>>}) <= MaxLines}}

IsSpace(c) == c \in {" ", "\n", "\t", "\r"}

\* String.prototype.trim
RECURSIVE TrimStart(_)
TrimStart(s) == IF Len(s) > 0 /\ IsSpace(Head(s)) THEN TrimStart(Tail(s)) ELSE s
RECURSIVE TrimEnd(_)
TrimEnd(s) ==
  IF Len(s) > 0 /\ IsSpace(s[Len(s)]) THEN TrimEnd(SubSeq(s, 1, Len(s) - 1)) ELSE s
Trim(s) == TrimStart(TrimEnd(s))

\* String.prototype.split('\n')
RECURSIVE SplitNewline(_, _)
SplitNewline(s, cur) ==
  IF Len(s) = 0 THEN <<cur>>
  ELSE IF Head(s) = "\n" THEN <<cur>> \o SplitNewline(Tail(s), <<>>)
  ELSE SplitNewline(Tail(s), Append(cur, Head(s)))

\* output.split('\n').filter(Boolean), without the trim
RawLines(output) == SelectSeq(SplitNewline(output, <<>>), LAMBDA l : Len(l) > 0)

\* output.trim().split('\n').filter(Boolean)
SplitLines(output) == RawLines(Trim(output))

\* line[i]
CharAt(line, i) == IF i + 1 <= Len(line) THEN line[i + 1] ELSE "undefined"
\* line.slice(n)
Slice(line, n) == SubSeq(line, n + 1, Len(line))

\* getStatusName with 'modified' as the default
getStatusName_DefaultModified(code) ==
  CASE code = "M" -> "modified"
    [] code = "A" -> "added"
    [] code = "D" -> "deleted"
    [] code = "R" -> "renamed"
    [] code = "C" -> "copied"
    [] code = "U" -> "unmerged"
    [] OTHER -> "modified"

\* getStatusName
getStatusName(code) ==
  CASE code = "M" -> "modified"
    [] code = "A" -> "added"
    [] code = "D" -> "deleted"
    [] code = "R" -> "renamed"
    [] code = "C" -> "copied"
    [] code = "U" -> "unmerged"
    [] OTHER -> "unknown"

FileChange(path, kind) == [path |-> path, status |-> kind]
EmptyStatus == [staged |-> <<>>, unstaged |-> <<>>, untracked |-> <<>>]

\* the body of `for (const line of lines)` with the working-tree test in an else branch
ClassifyLine_ElseIf(line) ==
  LET indexStatus == CharAt(line, 0)
      workingStatus == CharAt(line, 1)
      filePath == Slice(line, 3)
  IN IF indexStatus = "?" /\ workingStatus = "?"
     THEN [staged |-> <<>>, unstaged |-> <<>>, untracked |-> <<filePath>>]
     ELSE IF indexStatus # " " /\ indexStatus # "?"
     THEN [staged |-> <<FileChange(filePath, getStatusName(indexStatus))>>,
           unstaged |-> <<>>, untracked |-> <<>>]
     ELSE [staged |-> <<>>,
           unstaged |-> IF workingStatus # " " /\ workingStatus # "?"
                        THEN <<FileChange(filePath, getStatusName(workingStatus))>>
                        ELSE <<>>,
           untracked |-> <<>>]

\* the body of `for (const line of lines)`: what one line pushes to the three arrays
ClassifyLine(line) ==
  LET indexStatus == CharAt(line, 0)
      workingStatus == CharAt(line, 1)
      filePath == Slice(line, 3)
  IN IF indexStatus = "?" /\ workingStatus = "?"
     THEN [staged |-> <<>>, unstaged |-> <<>>, untracked |-> <<filePath>>]
     ELSE [staged |-> IF indexStatus # " " /\ indexStatus # "?"
                      THEN <<FileChange(filePath, getStatusName(indexStatus))>>
                      ELSE <<>>,
           unstaged |-> IF workingStatus # " " /\ workingStatus # "?"
                        THEN <<FileChange(filePath, getStatusName(workingStatus))>>
                        ELSE <<>>,
           untracked |-> <<>>]

RECURSIVE ParseLines(_, _)
ParseLines(lines, acc) ==
  IF Len(lines) = 0 THEN acc
  ELSE LET r == ClassifyLine(Head(lines))
       IN ParseLines(Tail(lines),
                     [staged |-> acc.staged \o r.staged,
                      unstaged |-> acc.unstaged \o r.unstaged,
                      untracked |-> acc.untracked \o r.untracked])

\* the 'close' listener of git:status for exit code 0
ParseStatus(output) == ParseLines(SplitLines(output), EmptyStatus)

GitInit ==
  /\ gitOutput \in Outputs
  /\ gitResult = NoStatus
  /\ status = NoStatus
  /\ roundTrip = [phase |-> 0, path |-> <<>>, before |-> NoStatus]
  /\ installed = "no"
  /\ returnedEarly = FALSE

NoRoundTrip == [phase |-> 0, path |-> <<>>, before |-> NoStatus]

\* ipcMain.handle('git:status'): git exits with code 0 and the call resolves
GitStatus ==
  /\ gitResult' = ParseStatus(gitOutput)
  /\ UNCHANGED <<gitOutput, status, roundTrip, installed, returnedEarly>>
  /\ UNCHANGED notGitVars

(* ------------------------------ git store ------------------------------ *)
PathsOf(changes) == {changes[i].path : i \in 1..Len(changes)}
Elems(s) == {s[i] : i \in 1..Len(s)}
\* Array.prototype.find on the path
FindByPath(changes, path) ==
  changes[CHOOSE i \in 1..Len(changes) :
            changes[i].path = path /\ \A j \in 1..(i - 1) : changes[j].path # path]
WithoutPath(changes, path) == SelectSeq(changes, LAMBDA f : f.path # path)

\* setStatus that keeps the staged list the store already holds
SetStatus_KeepStaged ==
  /\ gitResult # NoStatus
  /\ status' = IF status = NoStatus THEN gitResult
                ELSE [gitResult EXCEPT !.staged = status.staged]
  /\ roundTrip' = NoRoundTrip
  /\ installed' = IF status # NoStatus /\ status # gitResult THEN "over" ELSE "same"
  /\ returnedEarly' = FALSE
  /\ UNCHANGED <<gitOutput, gitResult>>
  /\ UNCHANGED notGitVars

\* setStatus, called with the result of a git:status call; `installed` notes
\* whether the store held something else than that result
SetStatus ==
  /\ gitResult # NoStatus
  /\ status' = gitResult
  /\ roundTrip' = NoRoundTrip
  /\ installed' = IF status # NoStatus /\ status # gitResult THEN "over" ELSE "same"
  /\ returnedEarly' = FALSE
  /\ UNCHANGED <<gitOutput, gitResult>>
  /\ UNCHANGED notGitVars

\* stageFile that stages a path it finds in neither list as added
stageFile_AddsMissing(st, path) ==
  IF st = NoStatus THEN st
  ELSE IF path \in PathsOf(st.unstaged)
  THEN [st EXCEPT !.staged = Append(st.staged, FindByPath(st.unstaged, path)),
                  !.unstaged = WithoutPath(st.unstaged, path)]
  ELSE [st EXCEPT !.staged = Append(st.staged, FileChange(path, "added")),
                  !.untracked = SelectSeq(st.untracked, LAMBDA p : p # path)]

\* stageFile: the status it sets
stageFile(st, path) ==
  IF st = NoStatus THEN st
  ELSE IF path \in PathsOf(st.unstaged)
  THEN [st EXCEPT !.staged = Append(st.staged, FindByPath(st.unstaged, path)),
                  !.unstaged = WithoutPath(st.unstaged, path)]
  ELSE IF path \in Elems(st.untracked)
  THEN [st EXCEPT !.staged = Append(st.staged, FileChange(path, "added")),
                  !.untracked = SelectSeq(st.untracked, LAMBDA p : p # path)]
  ELSE st

\* unstageFile that forgets the path of an added entry
unstageFile_DropAdded(st, path) ==
  IF st = NoStatus THEN st
  ELSE IF path \notin PathsOf(st.staged) THEN st
  ELSE LET stagedFile == FindByPath(st.staged, path)
       IN IF stagedFile.status = "added"
          THEN [st EXCEPT !.staged = WithoutPath(st.staged, path)]
          ELSE [st EXCEPT !.staged = WithoutPath(st.staged, path),
                          !.unstaged = Append(st.unstaged, stagedFile)]

\* unstageFile: the status it sets
unstageFile(st, path) ==
  IF st = NoStatus THEN st
  ELSE IF path \notin PathsOf(st.staged) THEN st
  ELSE LET stagedFile == FindByPath(st.staged, path)
       IN IF stagedFile.status = "added"
          THEN [st EXCEPT !.staged = WithoutPath(st.staged, path),
                          !.untracked = Append(st.untracked, path)]
          ELSE [st EXCEPT !.staged = WithoutPath(st.staged, path),
                          !.unstaged = Append(st.unstaged, stagedFile)]

\* stageAll: the status it sets
stageAll(st) ==
  IF st = NoStatus THEN st
  ELSE [staged |-> st.staged \o st.unstaged
                     \o [i \in 1..Len(st.untracked) |-> FileChange(st.untracked[i], "added")],
        unstaged |-> <<>>,
        untracked |-> <<>>]

\* unstageAll: the status it sets
unstageAll(st) ==
  IF st = NoStatus THEN st
  ELSE LET allUnstaged == SelectSeq(st.staged, LAMBDA f : f.status # "added")
           added == SelectSeq(st.staged, LAMBDA f : f.status = "added")
       IN [staged |-> <<>>,
           unstaged |-> st.unstaged \o allUnstaged,
           untracked |-> st.untracked \o [i \in 1..Len(added) |-> added[i].path]]

Stageable(st, path) ==
  st # NoStatus /\ (path \in PathsOf(st.unstaged) \/ path \in Elems(st.untracked))

StageFile(path) ==
  /\ status' = stageFile(status, path)
  /\ roundTrip' = IF Stageable(status, path)
                  THEN [phase |-> 1, path |-> path, before |-> status]
                  ELSE NoRoundTrip
  /\ returnedEarly' = ~Stageable(status, path)
  /\ installed' = "no"
  /\ UNCHANGED <<gitOutput, gitResult>>
  /\ UNCHANGED notGitVars

UnstageFile(path) ==
  /\ status' = unstageFile(status, path)
  /\ roundTrip' = IF roundTrip.phase = 1 /\ roundTrip.path = path
                  THEN [roundTrip EXCEPT !.phase = 2]
                  ELSE NoRoundTrip
  /\ returnedEarly' = (status = NoStatus \/ path \notin PathsOf(status.staged))
  /\ installed' = "no"
  /\ UNCHANGED <<gitOutput, gitResult>>
  /\ UNCHANGED notGitVars

StageAll ==
  /\ status' = stageAll(status)
  /\ roundTrip' = NoRoundTrip
  /\ returnedEarly' = (status = NoStatus)
  /\ installed' = "no"
  /\ UNCHANGED <<gitOutput, gitResult>>
  /\ UNCHANGED notGitVars

UnstageAll ==
  /\ status' = unstageAll(status)
  /\ roundTrip' = NoRoundTrip
  /\ returnedEarly' = (status = NoStatus)
  /\ installed' = "no"
  /\ UNCHANGED <<gitOutput, gitResult>>
  /\ UNCHANGED notGitVars

\* paths the git panel can pass: those of the repository and those the status holds
PanelPaths ==
  {PathOf(i) : i \in PathIds}
    \cup (IF status = NoStatus THEN {}
          ELSE PathsOf(status.staged) \cup PathsOf(status.unstaged) \cup Elems(status.untracked))

GitNext ==
  \/ GitStatus
  \/ SetStatus
  \/ \E path \in PanelPaths : StageFile(path)
  \/ \E path \in PanelPaths : UnstageFile(path)
  \/ StageAll
  \/ UnstageAll

(* ------------------------------ git: claims ---------------------------- *)
Count(s, x) == Cardinality({i \in 1..Len(s) : s[i] = x})
SameBag(s, t) ==
  /\ Len(s) = Len(t)
  /\ \A x \in Elems(s) \cup Elems(t) : Count(s, x) = Count(t, x)
WithPath(changes, path) == SelectSeq(changes, LAMBDA f : f.path = path)

\* the classification of one line with code pair XY and path p, as the
\* specification words it
LineClassified(line, result) ==
  LET X == CharAt(line, 0)
      Y == CharAt(line, 1)
      p == Slice(line, 3)
  IN IF X = "?" /\ Y = "?"
     THEN /\ Count(result.untracked, p) = 1
          /\ WithPath(result.staged, p) = <<>>
          /\ WithPath(result.unstaged, p) = <<>>
     ELSE /\ Count(result.untracked, p) = 0
          /\ WithPath(result.staged, p) =
               (IF X \notin {" ", "?"} THEN <<FileChange(p, getStatusName(X))>> ELSE <<>>)
          /\ WithPath(result.unstaged, p) =
               (IF Y \notin {" ", "?"} THEN <<FileChange(p, getStatusName(Y))>> ELSE <<>>)

\* every entry of the result comes from one of the lines
OnlyFromLines(lines, result) ==
  PathsOf(result.staged) \cup PathsOf(result.unstaged) \cup Elems(result.untracked)
    \subseteq {Slice(lines[i], 3) : i \in 1..Len(lines)}

\* C7: the parse classifies every line it splits off the output by the code
\* pair XY and the path p of the line: '??' gives one untracked entry p and
\* nothing else; otherwise X outside {blank, '?'} gives one staged entry of X's
\* kind and Y outside {blank, '?'} one unstaged entry of Y's kind. A line
\* 'M  p' of the output gives only a staged modified entry and a line 'MM p'
\* gives a staged and an unstaged modified entry for p.
C7_LinesClassified ==
  gitResult # NoStatus =>
    LET lines == SplitLines(gitOutput)
        printed == Elems(RawLines(gitOutput))
    IN /\ \A i \in 1..Len(lines) : LineClassified(lines[i], gitResult)
       /\ OnlyFromLines(lines, gitResult)
       /\ \A i \in PathIds :
            /\ StatusLine(<<"M", " ">>, PathOf(i)) \in printed
               => /\ WithPath(gitResult.staged, PathOf(i)) = <<FileChange(PathOf(i), "modified")>>
                  /\ WithPath(gitResult.unstaged, PathOf(i)) = <<>>
                  /\ Count(gitResult.untracked, PathOf(i)) = 0
            /\ StatusLine(<<"M", "M">>, PathOf(i)) \in printed
               => /\ WithPath(gitResult.staged, PathOf(i)) = <<FileChange(PathOf(i), "modified")>>
                  /\ WithPath(gitResult.unstaged, PathOf(i)) = <<FileChange(PathOf(i), "modified")>>

C7_Witness ==
  /\ gitResult # NoStatus
  /\ \E i \in PathIds :
       /\ StatusLine(<<"M", "M">>, PathOf(i)) \in Elems(RawLines(gitOutput))
       /\ WithPath(gitResult.staged, PathOf(i)) = <<FileChange(PathOf(i), "modified")>>
       /\ WithPath(gitResult.unstaged, PathOf(i)) = <<FileChange(PathOf(i), "modified")>>

\* C8 (as claimed): the classification holds for every line git printed,
\* whatever its position; a first line ' M p' gives exactly one unstaged
\* modified entry with path p and no staged entry.
C8_EveryPositionClassified ==
  gitResult # NoStatus =>
    LET printed == RawLines(gitOutput)
    IN /\ \A i \in 1..Len(printed) : LineClassified(printed[i], gitResult)
       /\ \A i \in PathIds :
            (Len(printed) > 0 /\ printed[1] = StatusLine(<<" ", "M">>, PathOf(i)))
            => /\ WithPath(gitResult.unstaged, PathOf(i)) = <<FileChange(PathOf(i), "modified")>>
               /\ gitResult.staged = <<>>

SameClassification(a, b) ==
  /\ SameBag(a.staged, b.staged)
  /\ SameBag(a.unstaged, b.unstaged)
  /\ SameBag(a.untracked, b.untracked)

\* C9 (as claimed): after stageFile(p) on a path p of unstaged or untracked and
\* then unstageFile(p), with nothing in between, staged, unstaged and
\* untracked hold the same entries as before the stageFile, order aside.
C9_StageUnstageRoundTrip ==
  roundTrip.phase = 2 => SameClassification(roundTrip.before, status)

NoDupPaths(changes) ==
  \A i, j \in 1..Len(changes) : changes[i].path = changes[j].path => i = j

\* C10 (as claimed): whatever stageFile, unstageFile, stageAll and unstageAll
\* calls follow a parsed status, staged holds at most one entry per path and
\* so does unstaged.
C10_OneEntryPerPath ==
  status # NoStatus => NoDupPaths(status.staged) /\ NoDupPaths(status.unstaged)

\* C11 (as claimed): after any stageFile, unstageFile, stageAll and unstageAll
\* calls on a parsed status, no path is in untracked and at the same time in
\* staged or in unstaged.
C11_UntrackedDisjoint ==
  status # NoStatus =>
    \A path \in Elems(status.untracked) :
      path \notin PathsOf(status.staged) /\ path \notin PathsOf(status.unstaged)

\* stageFile applied to each path of a list in turn, first to last
RECURSIVE StageEach(_, _)
StageEach(st, paths) ==
  IF paths = <<>> THEN st ELSE StageEach(stageFile(st, Head(paths)), Tail(paths))

\* unstageFile applied to each path of a list in turn, first to last
RECURSIVE UnstageEach(_, _)
UnstageEach(st, paths) ==
  IF paths = <<>> THEN st ELSE UnstageEach(unstageFile(st, Head(paths)), Tail(paths))

PathSeq(changes) == [i \in 1..Len(changes) |-> changes[i].path]

\* C12 (as claimed): in every status the staging operations reach from a
\* parsed status, stageAll gives the entries that stageFile gives when it is
\* applied to every path of unstaged and of untracked, and unstageAll gives the
\* entries that unstageFile gives when it is applied to every path of staged.
C12_AllEqualsEach ==
  status # NoStatus =>
    /\ SameClassification(stageAll(status),
         StageEach(status, PathSeq(status.unstaged) \o status.untracked))
    /\ SameClassification(unstageAll(status),
         UnstageEach(status, PathSeq(status.staged)))

\* C13 (as claimed): right after setStatus installs the result of a refresh,
\* the store's staged, unstaged and untracked are exactly those of the result,
\* whatever staging calls changed the store before the result was installed.
C13_InstallReplaces ==
  installed # "no" => status = gitResult

\* a result was installed over a store the staging calls had changed
C13_Witness ==
  installed = "over" /\ status = gitResult

(* ------------------------- device flow (service) ----------------------- *)
MsPerSecond == 1000
SlowDownMs == 5000
\* the clock is read at multiples of the polling increment
TickMs == SlowDownMs

\* a property the JSON body does not have
Absent == "undefined"
\* JavaScript truthiness of a string property
Truthy(v) == v # Absent /\ v # ""

ExpiresIns == {MaxExpiresIn - 10, MaxExpiresIn}
Intervals == {5}
\* response.json() of requestDeviceCode
DeviceCodeResponses ==
  [user_code : {"WDJB-MJHT"}, expires_in : ExpiresIns, interval : Intervals]

ProtocolErrors ==
  {"authorization_pending", "slow_down", "expired_token", "access_denied",
   "unsupported_grant_type"}
\* response.json() of pollForAccessToken: GitHub answers with a token, with
\* an error (described or not), or with neither
TokenResponses ==
  {[access_token |-> "gho_token", error |-> Absent, error_description |-> Absent]}
    \cup [access_token : {Absent}, error : ProtocolErrors,
          error_description : {Absent, "described"}]
    \cup {[access_token |-> Absent, error |-> Absent, error_description |-> Absent]}
NoResponse == [access_token |-> Absent, error |-> Absent, error_description |-> "none yet"]

\* response.json() of fetchUser
GitHubUsers == {"octocat"}

\* what fetch rejects with, and the non-2xx status the three helpers throw on
FetchFailed == "fetch failed"
DeviceCodeFailures == {"Failed to request device code: 500", FetchFailed}
TokenFailures == {"Failed to poll for access token: 500", FetchFailed}
UserFailures == {"Failed to fetch user: 500", FetchFailed}

ExpiredMessage == "Device code expired. Please try again."
DeniedMessage == "Authorization was denied by user."
TimedOutMessage == "Authorization timed out. Please try again."

OnProgress(text) == [cb |-> "onProgress", arg |-> text]
OnUserCode(code) == [cb |-> "onUserCode", arg |-> code]

NoOutcome == [kind |-> "none", message |-> Absent, accessToken |-> Absent, user |-> Absent]
\* return { accessToken, user }
Returned(token, user) ==
  [kind |-> "Succeeded", message |-> Absent, accessToken |-> token, user |-> user]
\* throw new Error(message): the terminal state the error stands for
Thrown(message) ==
  [kind |-> IF message \in {ExpiredMessage, TimedOutMessage} THEN "Expired"
            ELSE IF message = DeniedMessage THEN "Denied"
            ELSE "Errored",
   message |-> message, accessToken |-> Absent, user |-> Absent]

FlowInit ==
  /\ flowPc = "idle"
  /\ now = 0
  /\ expiresAt = 0
  /\ interval = 0
  /\ dcInterval = 0
  /\ timerDue = 0
  /\ answeredAt = 0
  /\ polls = 0
  /\ requestedAt = 0
  /\ nPending = 0
  /\ nSlow = 0
  /\ nEmpty = 0
  /\ tokenResponse = NoResponse
  /\ callbacks = <<>>
  /\ outcome = NoOutcome

\* authenticateWithDeviceFlow is called: up to `await requestDeviceCode()`
AuthenticateWithDeviceFlow ==
  /\ flowPc = "idle"
  /\ callbacks' = Append(callbacks, OnProgress("Requesting device code..."))
  /\ flowPc' = "deviceCode"
  /\ UNCHANGED <<now, expiresAt, interval, dcInterval, timerDue, answeredAt, polls,
                 requestedAt, nPending, nSlow, nEmpty, tokenResponse, outcome>>
  /\ UNCHANGED notFlowVars

\* `while (Date.now() < expiresAt)` with the setTimeout of the body, or the
\* throw after the loop
LoopHead(exp, int) ==
  IF now < exp
  THEN /\ timerDue' = now + int
       /\ flowPc' = "timer"
       /\ outcome' = outcome
  ELSE /\ timerDue' = timerDue
       /\ flowPc' = "done"
       /\ outcome' = Thrown(TimedOutMessage)

\* requestDeviceCode resolves, with onUserCode called again after onProgress
DeviceCodeReceived_CodeTwice(response) ==
  /\ flowPc = "deviceCode"
  /\ callbacks' = callbacks \o <<OnUserCode(response.user_code),
                                 OnProgress("Waiting for authorization..."),
                                 OnUserCode(response.user_code)>>
  /\ expiresAt' = now + response.expires_in * MsPerSecond
  /\ interval' = response.interval * MsPerSecond
  /\ dcInterval' = response.interval
  /\ answeredAt' = now
  /\ LoopHead(expiresAt', interval')
  /\ UNCHANGED <<now, polls, requestedAt, nPending, nSlow, nEmpty, tokenResponse>>
  /\ UNCHANGED notFlowVars

\* requestDeviceCode resolves, without the onUserCode call
DeviceCodeReceived_NoUserCode(response) ==
  /\ flowPc = "deviceCode"
  /\ callbacks' = Append(callbacks, OnProgress("Waiting for authorization..."))
  /\ expiresAt' = now + response.expires_in * MsPerSecond
  /\ interval' = response.interval * MsPerSecond
  /\ dcInterval' = response.interval
  /\ answeredAt' = now
  /\ LoopHead(expiresAt', interval')
  /\ UNCHANGED <<now, polls, requestedAt, nPending, nSlow, nEmpty, tokenResponse>>
  /\ UNCHANGED notFlowVars

\* requestDeviceCode resolves: up to the first setTimeout
DeviceCodeReceived(response) ==
  /\ flowPc = "deviceCode"
  /\ callbacks' = callbacks \o <<OnUserCode(response.user_code),
                                 OnProgress("Waiting for authorization...")>>
  /\ expiresAt' = now + response.expires_in * MsPerSecond
  /\ interval' = response.interval * MsPerSecond
  /\ dcInterval' = response.interval
  /\ answeredAt' = now
  /\ LoopHead(expiresAt', interval')
  /\ UNCHANGED <<now, polls, requestedAt, nPending, nSlow, nEmpty, tokenResponse>>
  /\ UNCHANGED notFlowVars

\* requestDeviceCode rejects
DeviceCodeFailed(message) ==
  /\ flowPc = "deviceCode"
  /\ flowPc' = "done"
  /\ outcome' = Thrown(message)
  /\ UNCHANGED <<now, expiresAt, interval, dcInterval, timerDue, answeredAt, polls,
                 requestedAt, nPending, nSlow, nEmpty, tokenResponse, callbacks>>
  /\ UNCHANGED notFlowVars

\* time passes while a timer or a request is pending
Tick ==
  /\ flowPc \in {"timer", "token", "user"}
  /\ now < expiresAt + TickMs \/ (flowPc = "timer" /\ now < timerDue)
  /\ now' = now + TickMs
  /\ UNCHANGED <<flowPc, expiresAt, interval, dcInterval, timerDue, answeredAt, polls,
                 requestedAt, nPending, nSlow, nEmpty, tokenResponse, callbacks,
                 outcome>>
  /\ UNCHANGED notFlowVars

\* the setTimeout callback runs: pollForAccessToken sends its request
TimerFired ==
  /\ flowPc = "timer"
  /\ now >= timerDue
  /\ flowPc' = "token"
  /\ polls' = polls + 1
  /\ requestedAt' = now
  /\ UNCHANGED <<now, expiresAt, interval, dcInterval, timerDue, answeredAt, nPending,
                 nSlow, nEmpty, tokenResponse, callbacks, outcome>>
  /\ UNCHANGED notFlowVars

\* the loop body with slow_down handled like authorization_pending
TokenReceived_NoBackoff(response) ==
  /\ flowPc = "token"
  /\ tokenResponse' = response
  /\ answeredAt' = now
  /\ IF Truthy(response.access_token)
     THEN /\ callbacks' = Append(callbacks, OnProgress("Fetching user info..."))
          /\ flowPc' = "user"
          /\ UNCHANGED <<interval, timerDue, nPending, nSlow, nEmpty, outcome>>
     ELSE IF response.error = "authorization_pending"
     THEN /\ nPending' = nPending + 1
          /\ LoopHead(expiresAt, interval)
          /\ UNCHANGED <<interval, nSlow, nEmpty, callbacks>>
     ELSE IF response.error = "slow_down"
     THEN /\ interval' = interval
          /\ nSlow' = nSlow + 1
          /\ LoopHead(expiresAt, interval')
          /\ UNCHANGED <<nPending, nEmpty, callbacks>>
     ELSE IF response.error = "expired_token"
     THEN /\ flowPc' = "done"
          /\ outcome' = Thrown(ExpiredMessage)
          /\ UNCHANGED <<interval, timerDue, nPending, nSlow, nEmpty, callbacks>>
     ELSE IF response.error = "access_denied"
     THEN /\ flowPc' = "done"
          /\ outcome' = Thrown(DeniedMessage)
          /\ UNCHANGED <<interval, timerDue, nPending, nSlow, nEmpty, callbacks>>
     ELSE IF Truthy(response.error)
     THEN /\ flowPc' = "done"
          /\ outcome' = Thrown(IF Truthy(response.error_description)
                               THEN response.error_description
                               ELSE response.error)
          /\ UNCHANGED <<interval, timerDue, nPending, nSlow, nEmpty, callbacks>>
     ELSE /\ nEmpty' = nEmpty + 1
          /\ LoopHead(expiresAt, interval)
          /\ UNCHANGED <<interval, nPending, nSlow, callbacks>>
  /\ UNCHANGED <<now, expiresAt, dcInterval, polls, requestedAt>>
  /\ UNCHANGED notFlowVars

\* the loop body without the access_denied test
TokenReceived_DeniedAsError(response) ==
  /\ flowPc = "token"
  /\ tokenResponse' = response
  /\ answeredAt' = now
  /\ IF Truthy(response.access_token)
     THEN /\ callbacks' = Append(callbacks, OnProgress("Fetching user info..."))
          /\ flowPc' = "user"
          /\ UNCHANGED <<interval, timerDue, nPending, nSlow, nEmpty, outcome>>
     ELSE IF response.error = "authorization_pending"
     THEN /\ nPending' = nPending + 1
          /\ LoopHead(expiresAt, interval)
          /\ UNCHANGED <<interval, nSlow, nEmpty, callbacks>>
     ELSE IF response.error = "slow_down"
     THEN /\ interval' = interval + SlowDownMs
          /\ nSlow' = nSlow + 1
          /\ LoopHead(expiresAt, interval')
          /\ UNCHANGED <<nPending, nEmpty, callbacks>>
     ELSE IF response.error = "expired_token"
     THEN /\ flowPc' = "done"
          /\ outcome' = Thrown(ExpiredMessage)
          /\ UNCHANGED <<interval, timerDue, nPending, nSlow, nEmpty, callbacks>>
     ELSE IF Truthy(response.error)
     THEN /\ flowPc' = "done"
          /\ outcome' = Thrown(IF Truthy(response.error_description)
                               THEN response.error_description
                               ELSE response.error)
          /\ UNCHANGED <<interval, timerDue, nPending, nSlow, nEmpty, callbacks>>
     ELSE /\ nEmpty' = nEmpty + 1
          /\ LoopHead(expiresAt, interval)
          /\ UNCHANGED <<interval, nPending, nSlow, callbacks>>
  /\ UNCHANGED <<now, expiresAt, dcInterval, polls, requestedAt>>
  /\ UNCHANGED notFlowVars

\* the loop body, throwing on an answer with neither token nor error
TokenReceived_EmptyThrows(response) ==
  /\ flowPc = "token"
  /\ tokenResponse' = response
  /\ answeredAt' = now
  /\ IF Truthy(response.access_token)
     THEN /\ callbacks' = Append(callbacks, OnProgress("Fetching user info..."))
          /\ flowPc' = "user"
          /\ UNCHANGED <<interval, timerDue, nPending, nSlow, nEmpty, outcome>>
     ELSE IF response.error = "authorization_pending"
     THEN /\ nPending' = nPending + 1
          /\ LoopHead(expiresAt, interval)
          /\ UNCHANGED <<interval, nSlow, nEmpty, callbacks>>
     ELSE IF response.error = "slow_down"
     THEN /\ interval' = interval + SlowDownMs
          /\ nSlow' = nSlow + 1
          /\ LoopHead(expiresAt, interval')
          /\ UNCHANGED <<nPending, nEmpty, callbacks>>
     ELSE IF response.error = "expired_token"
     THEN /\ flowPc' = "done"
          /\ outcome' = Thrown(ExpiredMessage)
          /\ UNCHANGED <<interval, timerDue, nPending, nSlow, nEmpty, callbacks>>
     ELSE IF response.error = "access_denied"
     THEN /\ flowPc' = "done"
          /\ outcome' = Thrown(DeniedMessage)
          /\ UNCHANGED <<interval, timerDue, nPending, nSlow, nEmpty, callbacks>>
     ELSE IF Truthy(response.error)
     THEN /\ flowPc' = "done"
          /\ outcome' = Thrown(IF Truthy(response.error_description)
                               THEN response.error_description
                               ELSE response.error)
          /\ UNCHANGED <<interval, timerDue, nPending, nSlow, nEmpty, callbacks>>
     ELSE /\ nEmpty' = nEmpty + 1
          /\ flowPc' = "done"
          /\ outcome' = Thrown("Unexpected response")
          /\ UNCHANGED <<interval, timerDue, nPending, nSlow, callbacks>>
  /\ UNCHANGED <<now, expiresAt, dcInterval, polls, requestedAt>>
  /\ UNCHANGED notFlowVars

\* pollForAccessToken resolves: the rest of the loop body, up to the next
\* await, the return or the throw
TokenReceived(response) ==
  /\ flowPc = "token"
  /\ tokenResponse' = response
  /\ answeredAt' = now
  /\ IF Truthy(response.access_token)
     THEN /\ callbacks' = Append(callbacks, OnProgress("Fetching user info..."))
          /\ flowPc' = "user"
          /\ UNCHANGED <<interval, timerDue, nPending, nSlow, nEmpty, outcome>>
     ELSE IF response.error = "authorization_pending"
     THEN /\ nPending' = nPending + 1
          /\ LoopHead(expiresAt, interval)
          /\ UNCHANGED <<interval, nSlow, nEmpty, callbacks>>
     ELSE IF response.error = "slow_down"
     THEN /\ interval' = interval + SlowDownMs
          /\ nSlow' = nSlow + 1
          /\ LoopHead(expiresAt, interval')
          /\ UNCHANGED <<nPending, nEmpty, callbacks>>
     ELSE IF response.error = "expired_token"
     THEN /\ flowPc' = "done"
          /\ outcome' = Thrown(ExpiredMessage)
          /\ UNCHANGED <<interval, timerDue, nPending, nSlow, nEmpty, callbacks>>
     ELSE IF response.error = "access_denied"
     THEN /\ flowPc' = "done"
          /\ outcome' = Thrown(DeniedMessage)
          /\ UNCHANGED <<interval, timerDue, nPending, nSlow, nEmpty, callbacks>>
     ELSE IF Truthy(response.error)
     THEN /\ flowPc' = "done"
          /\ outcome' = Thrown(IF Truthy(response.error_description)
                               THEN response.error_description
                               ELSE response.error)
          /\ UNCHANGED <<interval, timerDue, nPending, nSlow, nEmpty, callbacks>>
     ELSE /\ nEmpty' = nEmpty + 1
          /\ LoopHead(expiresAt, interval)
          /\ UNCHANGED <<interval, nPending, nSlow, callbacks>>
  /\ UNCHANGED <<now, expiresAt, dcInterval, polls, requestedAt>>
  /\ UNCHANGED notFlowVars

\* pollForAccessToken rejects and the loop goes on to the next wait
TokenFailed_Swallowed(message) ==
  /\ flowPc = "token"
  /\ flowPc' = "timer"
  /\ outcome' = Thrown(message)
  /\ UNCHANGED <<now, expiresAt, interval, dcInterval, timerDue, answeredAt, polls,
                 requestedAt, nPending, nSlow, nEmpty, tokenResponse, callbacks>>
  /\ UNCHANGED notFlowVars

\* pollForAccessToken rejects
TokenFailed(message) ==
  /\ flowPc = "token"
  /\ flowPc' = "done"
  /\ outcome' = Thrown(message)
  /\ UNCHANGED <<now, expiresAt, interval, dcInterval, timerDue, answeredAt, polls,
                 requestedAt, nPending, nSlow, nEmpty, tokenResponse, callbacks>>
  /\ UNCHANGED notFlowVars

\* fetchUser resolves: the return
UserReceived(user) ==
  /\ flowPc = "user"
  /\ flowPc' = "done"
  /\ outcome' = Returned(tokenResponse.access_token, user)
  /\ UNCHANGED <<now, expiresAt, interval, dcInterval, timerDue, answeredAt, polls,
                 requestedAt, nPending, nSlow, nEmpty, tokenResponse, callbacks>>
  /\ UNCHANGED notFlowVars

\* fetchUser rejects
UserFailed(message) ==
  /\ flowPc = "user"
  /\ flowPc' = "done"
  /\ outcome' = Thrown(message)
  /\ UNCHANGED <<now, expiresAt, interval, dcInterval, timerDue, answeredAt, polls,
                 requestedAt, nPending, nSlow, nEmpty, tokenResponse, callbacks>>
  /\ UNCHANGED notFlowVars

FlowNext ==
  \/ AuthenticateWithDeviceFlow
  \/ \E response \in DeviceCodeResponses : DeviceCodeReceived(response)
  \/ \E message \in DeviceCodeFailures : DeviceCodeFailed(message)
  \/ Tick
  \/ TimerFired
  \/ \E response \in TokenResponses : TokenReceived(response)
  \/ \E message \in TokenFailures : TokenFailed(message)
  \/ \E user \in GitHubUsers : UserReceived(user)
  \/ \E message \in UserFailures : UserFailed(message)

(* ---------------------- device flow (login modal) ---------------------- *)
Null == "null"
Logins == 1..MaxLogins

InactiveDeviceFlow ==
  [isActive |-> FALSE, userCode |-> Null, verificationUri |-> Null, status |-> ""]

LoginInit ==
  /\ deviceFlowState = InactiveDeviceFlow
  /\ isLoading = FALSE
  /\ showLoginModal = FALSE
  /\ logins = 0
  /\ loginTimer = [n \in Logins |-> "none"]
  /\ cancelled = FALSE

\* the deviceFlowState each store action sets
startDeviceFlow ==
  [isActive |-> TRUE, userCode |-> Null, verificationUri |-> Null,
   status |-> "Starting authentication..."]
setDeviceFlowCode(state, userCode, verificationUri) ==
  [state EXCEPT !.userCode = userCode, !.verificationUri = verificationUri,
                !.status = "Enter the code in your browser"]
setDeviceFlowStatus(state, text) == [state EXCEPT !.status = text]
endDeviceFlow == InactiveDeviceFlow

\* App: the login modal is opened
OpenLoginModal ==
  /\ ~showLoginModal
  /\ showLoginModal' = TRUE
  /\ UNCHANGED <<deviceFlowState, isLoading, logins, loginTimer, cancelled>>
  /\ UNCHANGED notLoginVars

\* handleLogin, up to its await: the button is rendered while no flow is active
HandleLogin ==
  /\ showLoginModal
  /\ ~deviceFlowState.isActive
  /\ logins < MaxLogins
  /\ logins' = logins + 1
  /\ deviceFlowState' = startDeviceFlow
  /\ isLoading' = TRUE
  /\ loginTimer' = [loginTimer EXCEPT ![logins + 1] = "pending"]
  /\ cancelled' = FALSE
  /\ UNCHANGED showLoginModal
  /\ UNCHANGED notLoginVars

\* handleLogin call n after its await: the timer ran out
LoginTimerFired(n) ==
  /\ loginTimer[n] = "pending"
  /\ loginTimer' = [loginTimer EXCEPT ![n] = "done"]
  /\ deviceFlowState' =
       setDeviceFlowStatus(
         setDeviceFlowCode(deviceFlowState, "ABCD-1234", "https://github.com/login/device"),
         "Open the link and enter the code")
  /\ UNCHANGED <<isLoading, showLoginModal, logins, cancelled>>
  /\ UNCHANGED notLoginVars

\* handleCancel: the Cancel button of an active flow, or the close button
HandleCancel ==
  /\ showLoginModal
  /\ deviceFlowState' = endDeviceFlow
  /\ isLoading' = FALSE
  /\ showLoginModal' = FALSE
  /\ cancelled' = (cancelled \/ (deviceFlowState.isActive /\ logins > 0))
  /\ UNCHANGED <<logins, loginTimer>>
  /\ UNCHANGED notLoginVars

LoginNext ==
  \/ OpenLoginModal
  \/ HandleLogin
  \/ \E n \in Logins : LoginTimerFired(n)
  \/ HandleCancel

(* ------------------------------ tab store ------------------------------ *)
\* Ids are numbers: generateId() returns a random string of nine base-36
\* digits, modelled as an id that was not returned before. A tab is its id and
\* its active flag, a group its id, its tabs and its activeTabId; type, title,
\* data and name are written by no operation modelled here except at creation.
DefaultGroupId == 0    \* 'default'
DefaultTabId == 0      \* 'claude-default'
NoTab == 0 - 1         \* activeTabId: null
NoGroup == 0 - 2       \* activeGroupId: ''
GroupIds == 0..MaxGroups
TabIds == 0..MaxTabs

TabInit ==
  /\ tabGroups = <<[id |-> DefaultGroupId,
                    tabs |-> <<[id |-> DefaultTabId, active |-> TRUE]>>,
                    activeTabId |-> DefaultTabId]>>
  /\ activeGroupId = DefaultGroupId
  /\ groupsMade = 0
  /\ tabsMade = 0

\* tabs.some(t => t.id === tabId)
HasTab(tabs, tabId) == \E k \in 1..Len(tabs) : tabs[k].id = tabId

\* tabs.findIndex(t => t.id === tabId), counted from 1; 0 when there is none
FindIndex(tabs, tabId) ==
  IF HasTab(tabs, tabId)
  THEN CHOOSE k \in 1..Len(tabs) :
         /\ tabs[k].id = tabId
         /\ \A j \in 1..(k - 1) : tabs[j].id # tabId
  ELSE 0

\* tabs.filter(t => t.id !== tabId)
WithoutTab(tabs, tabId) == SelectSeq(tabs, LAMBDA t : t.id # tabId)

\* the map of addTab
addTab(groups, groupId, tabId) ==
  [i \in 1..Len(groups) |->
     LET g == groups[i]
         updatedTabs == [k \in 1..Len(g.tabs) |-> [g.tabs[k] EXCEPT !.active = FALSE]]
     IN IF g.id # groupId
        THEN g
        ELSE [g EXCEPT !.tabs = Append(updatedTabs, [id |-> tabId, active |-> TRUE]),
                       !.activeTabId = tabId]]

\* removeTab reads newTabs[-1].id: the removed id is activeTabId, is not a tab
\* of the group, and the group has tabs
removeTabThrows(groups, groupId, tabId) ==
  \E i \in 1..Len(groups) :
    /\ groups[i].id = groupId
    /\ groups[i].activeTabId = tabId
    /\ ~HasTab(groups[i].tabs, tabId)
    /\ Len(groups[i].tabs) > 0

\* the map of removeTab, where it does not throw
removeTab(groups, groupId, tabId) ==
  [i \in 1..Len(groups) |->
     LET g == groups[i]
         tabIndex == FindIndex(g.tabs, tabId)
         newTabs == WithoutTab(g.tabs, tabId)
         newActiveIndex == IF tabIndex < Len(newTabs) THEN tabIndex ELSE Len(newTabs)
     IN IF g.id # groupId
        THEN g
        ELSE IF g.activeTabId = tabId /\ Len(newTabs) > 0
        THEN [g EXCEPT !.tabs = [newTabs EXCEPT ![newActiveIndex].active = TRUE],
                       !.activeTabId = newTabs[newActiveIndex].id]
        ELSE IF Len(newTabs) = 0
        THEN [g EXCEPT !.tabs = newTabs, !.activeTabId = NoTab]
        ELSE [g EXCEPT !.tabs = newTabs]]

\* the map of setActiveTab
setActiveTab(groups, groupId, tabId) ==
  [i \in 1..Len(groups) |->
     LET g == groups[i]
     IN IF g.id # groupId
        THEN g
        ELSE [g EXCEPT !.tabs = [k \in 1..Len(g.tabs) |->
                                   [g.tabs[k] EXCEPT !.active = (g.tabs[k].id = tabId)]],
                       !.activeTabId = tabId]]

\* moveTab: the early return and the map
moveTab(groups, fromGroupId, toGroupId, tabId) ==
  IF ~\E i \in 1..Len(groups) :
          groups[i].id = fromGroupId /\ HasTab(groups[i].tabs, tabId)
  THEN groups
  ELSE [i \in 1..Len(groups) |->
          LET g == groups[i]
              newTabs == WithoutTab(g.tabs, tabId)
          IN IF g.id = fromGroupId
             THEN [g EXCEPT !.tabs = newTabs,
                            !.activeTabId = IF g.activeTabId = tabId
                                            THEN IF Len(newTabs) > 0 THEN newTabs[1].id ELSE NoTab
                                            ELSE g.activeTabId]
             ELSE IF g.id = toGroupId
             THEN [g EXCEPT !.tabs = Append(g.tabs, [id |-> tabId, active |-> TRUE]),
                            !.activeTabId = tabId]
             ELSE g]

AddTabGroup ==
  /\ groupsMade < MaxGroups
  /\ groupsMade' = groupsMade + 1
  /\ tabGroups' = Append(tabGroups,
                         [id |-> groupsMade + 1, tabs |-> <<>>, activeTabId |-> NoTab])
  /\ activeGroupId' = groupsMade + 1
  /\ UNCHANGED tabsMade
  /\ UNCHANGED notTabVars

RemoveTabGroup(groupId) ==
  /\ IF Len(tabGroups) <= 1
     THEN UNCHANGED <<tabGroups, activeGroupId>>
     ELSE LET newGroups == SelectSeq(tabGroups, LAMBDA g : g.id # groupId)
          IN /\ tabGroups' = newGroups
             /\ activeGroupId' = IF activeGroupId = groupId
                                 THEN IF Len(newGroups) > 0 THEN newGroups[1].id ELSE NoGroup
                                 ELSE activeGroupId
  /\ UNCHANGED <<groupsMade, tabsMade>>
  /\ UNCHANGED notTabVars

SetActiveGroup(groupId) ==
  /\ activeGroupId' = groupId
  /\ UNCHANGED <<tabGroups, groupsMade, tabsMade>>
  /\ UNCHANGED notTabVars

AddTab(groupId) ==
  /\ tabsMade < MaxTabs
  /\ tabsMade' = tabsMade + 1
  /\ tabGroups' = addTab(tabGroups, groupId, tabsMade + 1)
  /\ UNCHANGED <<activeGroupId, groupsMade>>
  /\ UNCHANGED notTabVars

RemoveTab(groupId, tabId) ==
  /\ tabGroups' = IF removeTabThrows(tabGroups, groupId, tabId)
                  THEN tabGroups
                  ELSE removeTab(tabGroups, groupId, tabId)
  /\ UNCHANGED <<activeGroupId, groupsMade, tabsMade>>
  /\ UNCHANGED notTabVars

\* setActiveTab on a tab of the group, as the tab bar calls it
SetActiveTab(groupId, tabId) ==
  /\ \E i \in 1..Len(tabGroups) :
       tabGroups[i].id = groupId /\ HasTab(tabGroups[i].tabs, tabId)
  /\ tabGroups' = setActiveTab(tabGroups, groupId, tabId)
  /\ UNCHANGED <<activeGroupId, groupsMade, tabsMade>>
  /\ UNCHANGED notTabVars

MoveTab(fromGroupId, toGroupId, tabId) ==
  /\ tabGroups' = moveTab(tabGroups, fromGroupId, toGroupId, tabId)
  /\ UNCHANGED <<activeGroupId, groupsMade, tabsMade>>
  /\ UNCHANGED notTabVars

TabNext ==
  \/ AddTabGroup
  \/ \E groupId \in GroupIds : RemoveTabGroup(groupId)
  \/ \E groupId \in GroupIds : SetActiveGroup(groupId)
  \/ \E groupId \in GroupIds : AddTab(groupId)
  \/ \E groupId \in GroupIds, tabId \in TabIds : RemoveTab(groupId, tabId)
  \/ \E groupId \in GroupIds, tabId \in TabIds : SetActiveTab(groupId, tabId)
  \/ \E fromGroupId, toGroupId \in GroupIds, tabId \in TabIds :
       MoveTab(fromGroupId, toGroupId, tabId)

(* --------------------------- device flow: claims ----------------------- *)
\* C14 (as claimed): no token request is issued after expiresAt, and the call
\* does not end Succeeded on the answer to a request made after expiresAt.
C14_NoRequestAfterExpiry ==
  /\ polls > 0 => requestedAt <= expiresAt
  /\ outcome.kind = "Succeeded" => requestedAt <= expiresAt

\* C15 (as claimed): after a cancel issued while an attempt is waiting for its
\* code or polling, and until a new attempt starts, the device-flow state is
\* inactive, with no user code and no status text.
C15_CancelledStaysInactive ==
  cancelled => deviceFlowState = InactiveDeviceFlow

\* C16 (as claimed): while a newer attempt is active, the completion of an
\* earlier attempt's timer leaves the device-flow state (user code, status
\* text) of the newer attempt as it was.
C16_StaleTimerHarmless ==
  [][\A n \in Logins :
       (n < logins /\ deviceFlowState.isActive /\ LoginTimerFired(n))
         => deviceFlowState' = deviceFlowState]_vars

\* number of onUserCode calls made
UserCodeCalls == Cardinality({i \in 1..Len(callbacks) : callbacks[i].cb = "onUserCode"})

\* the token endpoint answered authorization_pending to every request but the
\* last and a token to the last, and the token arrived before expiresAt
PendingThenToken ==
  /\ Truthy(tokenResponse.access_token)
  /\ nSlow = 0
  /\ nEmpty = 0
  /\ answeredAt < expiresAt

\* C17: when the token endpoint answers authorization_pending n times and then
\* a token, all before expiry, the call has made exactly n + 1 token requests
\* and exactly one onUserCode call, and once the user is fetched it has
\* returned that token and that user.
C17_PendingThenSucceeded ==
  PendingThenToken =>
    /\ polls = nPending + 1
    /\ UserCodeCalls = 1
    /\ flowPc \in {"user", "done"}
    /\ flowPc = "done" =>
         \/ outcome.message \in UserFailures
         \/ /\ outcome.kind = "Succeeded"
            /\ outcome.accessToken = tokenResponse.access_token
            /\ outcome.user \in GitHubUsers

\* three authorization_pending answers, then a token: returned after 4 requests
C17_Witness ==
  /\ PendingThenToken
  /\ nPending = 3
  /\ polls = 4
  /\ outcome.kind = "Succeeded"

\* C18: the polling interval is the server's interval plus 5000 ms for each
\* slow_down answer received; every token request is made no sooner than the
\* interval, as raised so far, after the answer before it; and the interval
\* never decreases.
C18_SlowDownRaisesInterval ==
  /\ [](interval = MsPerSecond * dcInterval + SlowDownMs * nSlow)
  /\ [](flowPc = "timer" => timerDue = answeredAt + interval)
  /\ [](flowPc = "token" => requestedAt >= answeredAt + interval)
  /\ [][interval' >= interval]_vars

\* a token request made after two slow_down answers
C18_Witness ==
  /\ flowPc = "token"
  /\ nSlow = 2
  /\ interval = MsPerSecond * dcInterval + 2 * SlowDownMs
  /\ requestedAt >= answeredAt + interval

\* the last token answer carries an error other than authorization_pending
\* and slow_down
ErrorAnswered ==
  /\ ~Truthy(tokenResponse.access_token)
  /\ Truthy(tokenResponse.error)
  /\ tokenResponse.error \notin {"authorization_pending", "slow_down"}

\* C19: a token answer with error expired_token ends the call Expired, one with
\* access_denied ends it Denied, and one with any other error except
\* authorization_pending and slow_down ends it Errored with the answer's
\* error_description, or the error code when there is none, as the message;
\* the answered request is the last token request of the call.
C19_ErrorEndsAttempt ==
  ErrorAnswered =>
    /\ flowPc = "done"
    /\ polls = nPending + nSlow + nEmpty + 1
    /\ tokenResponse.error = "expired_token" => outcome.kind = "Expired"
    /\ tokenResponse.error = "access_denied" => outcome.kind = "Denied"
    /\ tokenResponse.error \notin {"expired_token", "access_denied"} =>
         /\ outcome.kind = "Errored"
         /\ outcome.message = IF tokenResponse.error_description # Absent
                              THEN tokenResponse.error_description
                              ELSE tokenResponse.error

\* an undescribed unsupported_grant_type answer after some polling
C19_Witness ==
  /\ ErrorAnswered
  /\ tokenResponse.error = "unsupported_grant_type"
  /\ tokenResponse.error_description = Absent
  /\ outcome.message = "unsupported_grant_type"
  /\ polls >= 2

TerminalKinds == {"Succeeded", "Denied", "Expired", "Errored"}

\* C20: a call that has started ends, with one of the four outcomes; it has an
\* outcome exactly when it has ended; and once it has ended it makes no token
\* request, fires no callback and does not change its outcome.
C20_OneOutcome ==
  /\ [](flowPc = "done" <=> outcome.kind \in TerminalKinds)
  /\ [](flowPc # "done" => outcome = NoOutcome)
  /\ [][flowPc = "done" => UNCHANGED <<flowPc, polls, callbacks, outcome>>]_vars
  /\ (flowPc = "deviceCode" ~> flowPc = "done")

\* a call that ended after polling
C20_Witness ==
  /\ flowPc = "done"
  /\ outcome.kind \in TerminalKinds
  /\ polls >= 1
  /\ Len(callbacks) >= 3

\* onProgress calls made with a text: 'Requesting device code...' goes with
\* each requestDeviceCode call and 'Fetching user info...' with each fetchUser call
ProgressCalls(text) ==
  Cardinality({i \in 1..Len(callbacks) : callbacks[i] = OnProgress(text)})

\* the call threw what a failed request throws
DeviceCodeRequestFailed == outcome.message \in DeviceCodeFailures /\ polls = 0
TokenRequestFailed ==
  /\ outcome.message \in TokenFailures
  /\ polls > 0
  /\ ~Truthy(tokenResponse.access_token)
UserRequestFailed ==
  outcome.message \in UserFailures /\ Truthy(tokenResponse.access_token)

\* a failed request ends the call Errored and is the last request of its kind
FailureEndsErrored ==
  /\ (DeviceCodeRequestFailed \/ TokenRequestFailed \/ UserRequestFailed) =>
       flowPc = "done" /\ outcome.kind = "Errored"
  /\ TokenRequestFailed => polls = nPending + nSlow + nEmpty + 1
  /\ ProgressCalls("Requesting device code...") <= 1
  /\ ProgressCalls("Fetching user info...") <= 1

\* C21 (as claimed): a failed device-code, token or user-info request ends the
\* call Errored and is not repeated, and every token request but the first
\* follows an authorization_pending or slow_down answer.
C21_OnlyProtocolRetries ==
  /\ FailureEndsErrored
  /\ polls <= nPending + nSlow + 1

(* ----------------------- device flow: more claims ---------------------- *)
\* C24: onUserCode is not called before the device-code response; it has been
\* called, once and right after the first onProgress, by the time the first
\* wait starts, so before any token request; and 'Fetching user info...' is
\* reported only when the last token answer carries an access token.
C24_CallbackOrder ==
  /\ flowPc \in {"idle", "deviceCode"} => UserCodeCalls = 0
  /\ (flowPc \in {"timer", "token", "user"} \/ polls > 0) =>
       /\ UserCodeCalls = 1
       /\ callbacks[2].cb = "onUserCode"
  /\ ProgressCalls("Fetching user info...") > 0 => Truthy(tokenResponse.access_token)

\* the first token request brought a token
C24_Witness ==
  /\ flowPc = "user"
  /\ polls = 1
  /\ Len(callbacks) = 4
  /\ callbacks[2].cb = "onUserCode"
  /\ callbacks[4] = OnProgress("Fetching user info...")

\* a token answer with neither access_token nor error
EmptyResponse ==
  [access_token |-> Absent, error |-> Absent, error_description |-> Absent]

\* C28: a token answer with neither access_token nor error leaves the interval
\* as it is; before expiresAt the flow then waits that interval for its next
\* token request, and from expiresAt on it ends by the expiry bound.
C28_EmptyAnswerKeepsPolling ==
  [][TokenReceived(EmptyResponse) =>
       /\ interval' = interval
       /\ IF now < expiresAt
          THEN flowPc' = "timer" /\ timerDue' = now + interval /\ outcome' = NoOutcome
          ELSE flowPc' = "done" /\ outcome' = Thrown(TimedOutMessage)]_vars

\* the token request that follows an answer with neither token nor error
C28_Witness ==
  /\ flowPc = "token"
  /\ tokenResponse = EmptyResponse
  /\ nEmpty = 1
  /\ polls = 2
  /\ requestedAt >= answeredAt + interval

(* --------------------------- git: more claims -------------------------- *)
KnownChars == {"M", "A", "D", "R", "C", "U"}
UnknownChar(c) == c \notin KnownChars \cup {" ", "?"}

\* C23: a line whose index or working-tree character is none of M, A, D, R,
\* C, U, blank and '?' gives an entry of kind 'unknown' with the line's path
\* in staged or unstaged respectively, and the other lines of the same output
\* are classified as usual in the status the call resolves with.
C23_UnknownKind ==
  gitResult # NoStatus =>
    LET lines == SplitLines(gitOutput)
    IN \A i \in 1..Len(lines) :
         LET X == CharAt(lines[i], 0)
             Y == CharAt(lines[i], 1)
             p == Slice(lines[i], 3)
         IN /\ UnknownChar(X) => Count(gitResult.staged, FileChange(p, "unknown")) = 1
            /\ UnknownChar(Y) => Count(gitResult.unstaged, FileChange(p, "unknown")) = 1
            /\ (UnknownChar(X) \/ UnknownChar(Y)) =>
                 \A j \in 1..Len(lines) : j # i => LineClassified(lines[j], gitResult)

\* an output with a type-changed line and a modified line, both in the result
C23_Witness ==
  /\ gitResult # NoStatus
  /\ gitOutput = OutputOf((1 :> <<"T", " ">>) @@ (2 :> <<"M", " ">>) @@ [i \in PathIds |-> <<>>])
  /\ gitResult.staged = <<FileChange(PathOf(1), "unknown"), FileChange(PathOf(2), "modified")>>

\* the paths a status holds in any of its three lists
AllPaths(st) ==
  IF st = NoStatus THEN {}
  ELSE PathsOf(st.staged) \cup PathsOf(st.unstaged) \cup Elems(st.untracked)

\* C26: stageFile, unstageFile, stageAll and unstageAll leave the set of paths
\* that occur in staged, unstaged or untracked as it was, on every status the
\* store reaches and for every path the panel can pass.
C26_PathsConserved ==
  LET paths == AllPaths(status)
  IN /\ \A path \in PanelPaths :
          /\ AllPaths(stageFile(status, path)) = paths
          /\ AllPaths(unstageFile(status, path)) = paths
     /\ AllPaths(stageAll(status)) = paths
     /\ AllPaths(unstageAll(status)) = paths

\* a path was staged and unstaged again, and the store holds the same paths
C26_Witness ==
  /\ roundTrip.phase = 2
  /\ roundTrip.path \in AllPaths(status)
  /\ AllPaths(status) = AllPaths(roundTrip.before)

\* C27: stageFile(p) with p neither in unstaged nor in untracked,
\* unstageFile(p) with p not in staged, and each of the four staging calls on
\* a null status give the status the store already has.
C27_EarlyReturnsChangeNothing ==
  /\ \A path \in PanelPaths :
       /\ ~Stageable(status, path) => stageFile(status, path) = status
       /\ (status = NoStatus \/ path \notin PathsOf(status.staged))
            => unstageFile(status, path) = status
  /\ status = NoStatus => stageAll(status) = status /\ unstageAll(status) = status

\* a staging call returned early on a status that holds entries
C27_Witness ==
  /\ returnedEarly
  /\ status # NoStatus
  /\ AllPaths(status) # {}

(* ---------------------- terminal registry: more claims ----------------- *)
\* the chunks of the output streams among the terminal:data events of a session
ChunkEventsOf(id) == SelectSeq(DataEventsOf(id), LAMBDA e : e.data # ErrorText)

\* C22: while a session is in the registry, its terminal:data events carry the
\* chunks its process has emitted, each once and in the order of emission,
\* whatever the other sessions published meanwhile.
C22_ChunksInOrder ==
  \A p \in 1..spawned :
    MapHas(terminals, IdOfProc(p)) =>
      LET events == ChunkEventsOf(IdOfProc(p))
      IN /\ Len(events) = procChunks[p]
         /\ \A k \in 1..Len(events) : events[k].data[2] = k

\* a live session published two chunks while another session published too
C22_Witness ==
  \E p, q \in 1..spawned :
    /\ p # q
    /\ MapHas(terminals, IdOfProc(p))
    /\ procChunks[p] = 2
    /\ Len(ChunkEventsOf(IdOfProc(p))) = 2
    /\ Len(sent[IdOfProc(q)]) > 0

\* C25 (as claimed): once terminal:kill(h) has signalled the process of h, no
\* further terminal:data event for h is published.
C25_NoDataAfterKill ==
  [][\A p \in 1..spawned :
       procSignalled[p] =>
         Len(SelectSeq(sent'[IdOfProc(p)], LAMBDA e : e.channel = "terminal:data"))
           = Len(DataEventsOf(IdOfProc(p)))]_vars

(* --------------------------- tab store: claims ------------------------- *)
\* how many tabs of all groups carry the id
TabIdCount(groups, tabId) ==
  Cardinality({p \in (1..Len(groups)) \X (1..(MaxTabs + 1)) :
                 /\ p[2] <= Len(groups[p[1]].tabs)
                 /\ groups[p[1]].tabs[p[2]].id = tabId})

\* C29: whatever fromGroupId, toGroupId and tabId are, moveTab leaves every
\* tab id as often in the groups as it was: no tab is lost, none duplicated.
C29_MoveTabKeepsTabs ==
  \A fromGroupId, toGroupId \in GroupIds, tabId \in TabIds :
    \A t \in TabIds :
      TabIdCount(moveTab(tabGroups, fromGroupId, toGroupId, tabId), t)
        = TabIdCount(tabGroups, t)

\* C30: in every group at most one tab is active, and a non-null activeTabId
\* is the id of a tab of the group, which is the active one.
C30_OneActiveTab ==
  \A i \in 1..Len(tabGroups) :
    LET g == tabGroups[i]
    IN /\ Cardinality({k \in 1..Len(g.tabs) : g.tabs[k].active}) <= 1
       /\ g.activeTabId # NoTab =>
            \E k \in 1..Len(g.tabs) : g.tabs[k].id = g.activeTabId /\ g.tabs[k].active

(* ---------------------------- specifications --------------------------- *)
\* the terminal handlers, in a window that never asks for the git status
TerminalOnlyInit ==
  TermInit /\ GitInit /\ gitOutput = <<>> /\ FlowInit /\ LoginInit /\ TabInit

SpecTerminal == TerminalOnlyInit /\ [][TermNext]_vars

Init == TermInit /\ GitInit /\ FlowInit /\ LoginInit /\ TabInit

SpecGit == Init /\ [][GitNext]_vars

\* one call of authenticateWithDeviceFlow
SpecDeviceFlow == TerminalOnlyInit /\ [][FlowNext]_vars

\* the same call, where every pending timer and request completes
SpecDeviceFlowFair == SpecDeviceFlow /\ WF_vars(FlowNext)

\* the login modal of the renderer
SpecLogin == TerminalOnlyInit /\ [][LoginNext]_vars

\* the tab store of the renderer
SpecTabs == TerminalOnlyInit /\ [][TabNext]_vars

Next == TermNext \/ GitNext \/ FlowNext \/ LoginNext \/ TabNext

Spec == Init /\ [][Next]_vars

====
